---- MODULE Spec2Model ----
(***************************************************************************)
(* Placement engine of the deck editor (src/app/deck/deckmain.tsx): the    *)
(* contribution grid, the placed tetrominos, drag and drop, rotation with  *)
(* wall kicks, deletion and the asynchronous grid refresh.                 *)
(*                                                                         *)
(* One action is one event handler run to completion together with the     *)
(* React effects its state updates schedule (the score effect on           *)
(* placedTetrominos, the recompute effect on loading / contributionGrid).  *)
(***************************************************************************)
EXTENDS Integers, Sequences, FiniteSets, TLC

\* ------------------------------------------------------------ constants
GRID_WIDTH == 8
GRID_HEIGHT == 7

\* ---------------------------------------------------------------- bounds
\* The palette offers the first NumTypes piece types of TETROMINO_SHAPES.
NumTypes == 2
\* With the refresh running, drop events land on grid columns 0..MaxDropX
\* and rows 0..MaxDropY, and on the last column and row; over the loaded
\* grid (SpecEngine) on columns 0..MaxEngineDropX and rows
\* 0..MaxEngineDropY, and on the last column and row.
MaxDropX == 1
MaxDropY == 0
MaxEngineDropX == 3
MaxEngineDropY == 1
\* Date.now() returns the values 1..MaxTime.
MaxTime == 2
\* fetchContributions is started at most MaxRequests times.
MaxRequests == 2
\* The mount effect runs at most MaxEffectRuns times (twice under React
\* StrictMode, which re-runs every effect of a freshly mounted component).
MaxEffectRuns == 2
\* With the refresh running at most MaxPieces pieces are placed, over the
\* loaded grid (SpecEngine) at most MaxEnginePieces.
MaxPieces == 1
MaxEnginePieces == 2
\* The contribution API answers with one of the first NumFeeds feeds.
NumFeeds == 2

\* ------------------------------------------------------- piece catalogue
TYPES == <<"I", "J", "L", "O", "S", "T", "Z">>

TETROMINO_SHAPES ==
  [ I |-> << <<0,0>>, <<1,0>>, <<2,0>>, <<3,0>> >>,
    J |-> << <<0,0>>, <<0,1>>, <<1,1>>, <<2,1>> >>,
    L |-> << <<2,0>>, <<0,1>>, <<1,1>>, <<2,1>> >>,
    O |-> << <<0,0>>, <<1,0>>, <<0,1>>, <<1,1>> >>,
    S |-> << <<1,0>>, <<2,0>>, <<0,1>>, <<1,1>> >>,
    T |-> << <<1,0>>, <<0,1>>, <<1,1>>, <<2,1>> >>,
    Z |-> << <<0,0>>, <<1,0>>, <<1,1>>, <<2,1>> >> ]

\* The pivots in half cells: <<3,1>> stands for [1.5, 0.5].
TETROMINO_PIVOTS ==
  [ I |-> <<3,1>>, J |-> <<2,2>>, L |-> <<2,2>>, O |-> <<1,1>>,
    S |-> <<2,2>>, T |-> <<2,2>>, Z |-> <<2,2>> ]

PaletteTypes == { TYPES[i] : i \in 1..NumTypes }

\* "no value": null for an id or a type, undefined for a date.
NoId == 0
NoType == "null"
NoDate == 0
NoCall == [ fn |-> "null" ]

\* ------------------------------------------------------------- helpers
\* getContributionLevel with >= for > at every threshold.
getContributionLevelInclusive(count) ==
  IF count >= 20 THEN 5
  ELSE IF count >= 10 THEN 4
  ELSE IF count >= 5 THEN 3
  ELSE IF count >= 0 THEN 2
  ELSE 0

getContributionLevel(count) ==
  IF count > 20 THEN 5
  ELSE IF count > 10 THEN 4
  ELSE IF count > 5 THEN 3
  ELSE IF count > 0 THEN 2
  ELSE IF count >= 0 THEN 1
  ELSE 0

getScoreFromContributionLevel(level) == level * 100

\* Math.round(Math.cos(angle * PI / 180)) and the same of Math.sin, for the
\* multiples of 90 the program passes.
RoundCos(angle) ==
  LET a == angle % 360 IN IF a = 0 THEN 1 ELSE IF a = 180 THEN -1 ELSE 0

RoundSin(angle) ==
  LET a == angle % 360 IN IF a = 90 THEN 1 ELSE IF a = 270 THEN -1 ELSE 0

\* Math.round(h / 2) for an integer h of half cells: floor(h/2 + 1/2).
MathRoundHalf(h) == (h + 1) \div 2

\* Math.ceil(h / 2) for an integer h of half cells.
MathCeilHalf(h) == (h + 1) \div 2

\* Math.floor(h / 2) for an integer h of half cells.
MathFloorHalf(h) == h \div 2

\* The body of rotateShape's map: one point turned about the pivot.
RotatePoint(x, y, px, py, cos, sin) ==
  LET translatedX == 2 * x - px
      translatedY == 2 * y - py
  IN << MathRoundHalf((translatedX * cos - translatedY * sin) + px),
        MathRoundHalf((translatedX * sin + translatedY * cos) + py) >>

rotateShape(shape, pivot, angle) ==
  [ i \in 1..Len(shape) |->
      RotatePoint(shape[i][1], shape[i][2], pivot[1], pivot[2],
                  RoundCos(angle), RoundSin(angle)) ]

InGrid(x, y) == x >= 0 /\ x < GRID_WIDTH /\ y >= 0 /\ y < GRID_HEIGHT

\* checkCollision without the exclusion of the piece itself.
checkCollisionWithSelf(cellsToCheck, currentId, placed) ==
  \E i \in 1..Len(cellsToCheck) :
     \/ ~InGrid(cellsToCheck[i][1], cellsToCheck[i][2])
     \/ \E k \in 1..Len(placed) :
           \E j \in 1..Len(placed[k].absolutePositions) :
              placed[k].absolutePositions[j] = cellsToCheck[i]

\* currentId is currentTetromino.id (NoId for a new piece).
checkCollision(cellsToCheck, currentId, placed) ==
  \E i \in 1..Len(cellsToCheck) :
     \/ ~InGrid(cellsToCheck[i][1], cellsToCheck[i][2])
     \/ \E k \in 1..Len(placed) :
           /\ placed[k].id # currentId
           /\ \E j \in 1..Len(placed[k].absolutePositions) :
                 placed[k].absolutePositions[j] = cellsToCheck[i]


\* ------------------------------------------------- contribution feeds
\* What the contribution API may answer: feed k is a sequence of records
\* {count, date}.  Feed 1 mixes every level (counts -1..22), feed 2 is all
\* zeros, feed 3 is shorter than the grid, any further feed is longer.
FeedLen(k) == IF k \in {1, 2} THEN GRID_WIDTH * GRID_HEIGHT
              ELSE IF k = 3 THEN 10 ELSE GRID_WIDTH * GRID_HEIGHT + 2

FeedCount(k, i) == IF k = 1 THEN (((i - 1) * 5) % 24) - 1
                   ELSE IF k = 2 THEN 0
                   ELSE IF k = 3 THEN 21 ELSE i % 7

Feed(k) == [ i \in 1..FeedLen(k) |->
               [ count |-> FeedCount(k, i), date |-> 100 * k + i ] ]

Feeds == 1..NumFeeds

\* The three throws of fetchContributions.
ErrorMessages == { "unauthenticated", "api error", "no data" }
NoError == "null"

\* ------------------------------------------------------------ the grid
\* contributionGrid is <<>> (the initial []) or GRID_HEIGHT rows of
\* GRID_WIDTH cells; cell (x, y) is contributionGrid[y + 1][x + 1].
DefaultCell == [ count |-> 0, level |-> 0, date |-> NoDate ]

RECURSIVE FillGrid(_, _, _)
FillGrid(grid, contributions, i) ==
  IF i >= GRID_WIDTH * GRID_HEIGHT THEN grid
  ELSE LET x == i \div GRID_HEIGHT
           y == i % GRID_HEIGHT
       IN IF i + 1 <= Len(contributions) /\ y < GRID_HEIGHT /\ x < GRID_WIDTH
          THEN LET count == contributions[i + 1].count
                   level == getContributionLevel(count)
               IN FillGrid([grid EXCEPT ![y + 1][x + 1] =
                              [ count |-> count, level |-> level,
                                date |-> contributions[i + 1].date ]],
                           contributions, i + 1)
          ELSE FillGrid(grid, contributions, i + 1)

\* The grid filled row by row: record i at x = i mod 8, y = i div 8.
transformRowMajor(contributions) ==
  [ r \in 1..GRID_HEIGHT |-> [ c \in 1..GRID_WIDTH |->
      LET i == (r - 1) * GRID_WIDTH + (c - 1)
      IN IF i + 1 <= Len(contributions)
         THEN [ count |-> contributions[i + 1].count,
                level |-> getContributionLevel(contributions[i + 1].count),
                date |-> contributions[i + 1].date ]
         ELSE DefaultCell ] ]

transformContributionsToGrid(contributions) ==
  FillGrid([ r \in 1..GRID_HEIGHT |-> [ c \in 1..GRID_WIDTH |-> DefaultCell ] ],
           contributions, 0)

\* ------------------------------------------------------ piece details
RECURSIVE SumScores(_, _)
SumScores(blocks, n) ==
  IF n = 0 THEN 0 ELSE SumScores(blocks, n - 1) + blocks[n].score

\* Translate with rx added to both coordinates.
TranslateByXOnly(relativeShape, currentX, currentY) ==
  [ i \in 1..Len(relativeShape) |->
      << currentX + relativeShape[i][1], currentY + relativeShape[i][1] >> ]

\* relativeShape.map(([rx, ry]) => [currentX + rx, currentY + ry])
Translate(relativeShape, currentX, currentY) ==
  [ i \in 1..Len(relativeShape) |->
      << currentX + relativeShape[i][1], currentY + relativeShape[i][2] >> ]

\* LevelAt with level 1, the level of a count of 0, where no cell is read.
LevelAtDefaultOne(grid, ax, ay) ==
  IF InGrid(ax, ay) /\ Len(grid) > 0 THEN grid[ay + 1][ax + 1].level ELSE 1

\* The level the forEach body reads for the block at (ax, ay).
LevelAt(grid, ax, ay) ==
  IF InGrid(ax, ay) /\ Len(grid) > 0 THEN grid[ay + 1][ax + 1].level ELSE 0

\* The entry the forEach body pushes for a block of that level.
BlockDetail(ax, ay, level) ==
  [ x |-> ax, y |-> ay, level |-> level,
    score |-> getScoreFromContributionLevel(level),
    colorIndex |-> IF level > 0 THEN level - 1 ELSE -1 ]

\* The forEach over absolutePositions.
BlockDetails(grid, absolutePositions) ==
  [ i \in 1..Len(absolutePositions) |->
      BlockDetail(absolutePositions[i][1], absolutePositions[i][2],
                  LevelAt(grid, absolutePositions[i][1], absolutePositions[i][2])) ]

\* Details with a scorePotential that leaves the last block out.
DetailsShortSum(absolutePositions, blockDetails) ==
  [ absolutePositions |-> absolutePositions,
    scorePotential |-> SumScores(blockDetails, Len(blockDetails) - 1),
    blockDetails |-> blockDetails ]

\* The returned object.
Details(absolutePositions, blockDetails) ==
  [ absolutePositions |-> absolutePositions,
    scorePotential |-> SumScores(blockDetails, Len(blockDetails)),
    blockDetails |-> blockDetails ]

DetailsAt(grid, absolutePositions) ==
  Details(absolutePositions, BlockDetails(grid, absolutePositions))

calculateTetrominoDetails(grid, type, currentX, currentY, currentRotation) ==
  IF type = NoType
  THEN [ absolutePositions |-> <<>>, scorePotential |-> 0, blockDetails |-> <<>> ]
  ELSE DetailsAt(grid,
         Translate(rotateShape(TETROMINO_SHAPES[type], TETROMINO_PIVOTS[type],
                               currentRotation),
                   currentX, currentY))

\* --------------------------------------------------- clamping the anchor
SeqMin(s, k) == CHOOSE m \in { s[i][k] : i \in 1..Len(s) } :
                  \A i \in 1..Len(s) : m <= s[i][k]
SeqMax(s, k) == CHOOSE m \in { s[i][k] : i \in 1..Len(s) } :
                  \A i \in 1..Len(s) : m >= s[i][k]

\* Adjust without the high side: a right or bottom overflow is left alone.
AdjustLowOnly(drop, lowOverflow, highOverflow) ==
  IF lowOverflow > 0 THEN drop + lowOverflow ELSE drop

\* The overflow adjustment along one axis: lowOverflow is leftOverflow or
\* topOverflow, highOverflow is rightOverflow or bottomOverflow.
Adjust(drop, lowOverflow, highOverflow) ==
  (IF lowOverflow > 0 THEN drop + lowOverflow ELSE drop)
    - (IF highOverflow > 0 THEN highOverflow ELSE 0)

AdjustedFor(relativeShape, dropX, dropY) ==
  [ adjustedX |-> Adjust(dropX, -(dropX + SeqMin(relativeShape, 1)),
                         dropX + SeqMax(relativeShape, 1) - (GRID_WIDTH - 1)),
    adjustedY |-> Adjust(dropY, -(dropY + SeqMin(relativeShape, 2)),
                         dropY + SeqMax(relativeShape, 2) - (GRID_HEIGHT - 1)) ]

\* getAdjustedDropPosition without the four adjustments.
getUnadjustedDropPosition(type, rotation, dropX, dropY) ==
  [ adjustedX |-> dropX, adjustedY |-> dropY ]

getAdjustedDropPosition(type, rotation, dropX, dropY) ==
  AdjustedFor(rotateShape(TETROMINO_SHAPES[type], TETROMINO_PIVOTS[type], rotation),
              dropX, dropY)

\* ---------------------------------------------------------------- state
VARIABLES
  contributionGrid,        \* useState([]) : the grid
  loading,                 \* useState(true)
  error,                   \* useState(null)
  placedTetrominos,        \* useState([]) : the pieces, in insertion order
  selectedTetrominoType,   \* useState(null)
  potentialScore,          \* useState(0) : the aggregate score
  draggedTetrominoId,      \* useState(null)
  isDraggingNew,           \* useState(false)
  now,                     \* what Date.now() returned last
  inflight,                \* the started fetchContributions calls not yet settled
  requests,                \* how many fetchContributions calls were started
  effectRuns,              \* how many times the mount effect ran
  appliedReq,              \* history: the request whose data is the grid
  regraded,                \* history: the last settled fetch found pieces placed
  turns,                   \* history: per piece, its successful rotations mod 4
  loaded,                  \* history: the records the grid was built from
  call                     \* the last direct call of a helper: arguments, result

vars == << contributionGrid, loading, error, placedTetrominos,
           selectedTetrominoType, potentialScore, draggedTetrominoId,
           isDraggingNew, now, inflight, requests, effectRuns, appliedReq,
           regraded, turns, loaded, call >>

dragVars == << selectedTetrominoType, draggedTetrominoId, isDraggingNew >>
fetchVars == << contributionGrid, loading, error, inflight, requests,
                effectRuns, appliedReq, regraded, loaded >>
pieceVars == << placedTetrominos, potentialScore, turns >>

\* -------------------------------------------------------------- effects
RECURSIVE SumPotential(_, _)
SumPotential(placed, n) ==
  IF n = 0 THEN 0 ELSE SumPotential(placed, n - 1) + placed[n].scorePotential

\* useEffect on [placedTetrominos]: the aggregate score.
ScoreEffect(placed) == SumPotential(placed, Len(placed))

\* useEffect on [loading, contributionGrid]: every piece's scores against
\* the grid of the render.
\* The recompute effect with the rotation argument left out (0).
RecomputeUnrotated(ld, grid, placed) ==
  IF ~ld /\ Len(grid) > 0 /\ Len(placed) > 0
  THEN [ k \in 1..Len(placed) |->
           LET d == calculateTetrominoDetails(grid, placed[k].type, placed[k].x,
                                              placed[k].y, 0)
           IN [ placed[k] EXCEPT !.scorePotential = d.scorePotential,
                                 !.blockDetails = d.blockDetails,
                                 !.absolutePositions = d.absolutePositions ] ]
  ELSE placed

\* No recompute effect: the pieces keep the details of the old grid.
RecomputeNever(ld, grid, placed) == placed

\* { ...t, scorePotential, blockDetails, absolutePositions }
WithDetails(t, d) ==
  [ t EXCEPT !.scorePotential = d.scorePotential,
             !.blockDetails = d.blockDetails,
             !.absolutePositions = d.absolutePositions ]

RecomputeEffect(ld, grid, placed) ==
  IF ~ld /\ Len(grid) > 0 /\ Len(placed) > 0
  THEN [ k \in 1..Len(placed) |->
           WithDetails(placed[k],
             calculateTetrominoDetails(grid, placed[k].type, placed[k].x,
                                       placed[k].y, placed[k].rotation)) ]
  ELSE placed

Init ==
  /\ contributionGrid = <<>>
  /\ loading = TRUE
  /\ error = NoError
  /\ placedTetrominos = <<>>
  /\ selectedTetrominoType = NoType
  /\ potentialScore = 0
  /\ draggedTetrominoId = NoId
  /\ isDraggingNew = FALSE
  /\ now = 1
  /\ inflight = {}
  /\ requests = 0
  /\ effectRuns = 0
  /\ appliedReq = 0
  /\ regraded = FALSE
  /\ turns = <<>>
  /\ loaded = <<>>
  /\ call = NoCall

\* ------------------------------------------------------ the grid refresh
\* fetchContributions up to its first await.
StartFetch ==
  /\ requests < MaxRequests
  /\ requests' = requests + 1
  /\ inflight' = inflight \cup { requests + 1 }
  /\ loading' = TRUE
  /\ error' = NoError
  /\ UNCHANGED << contributionGrid, appliedReq, regraded, loaded >>

\* useEffect(() => { fetchContributions(); }, [fetchContributions])
MountEffect ==
  /\ effectRuns < MaxEffectRuns
  /\ effectRuns' = effectRuns + 1
  /\ StartFetch
  /\ UNCHANGED << pieceVars, dragVars, now, call >>

\* The refresh button: onClick={fetchContributions} disabled={loading}.
RefreshClick ==
  /\ ~loading
  /\ StartFetch
  /\ UNCHANGED << effectRuns, pieceVars, dragVars, now, call >>

\* A fetch settles with a non-empty array: the try block's last line and
\* the finally block, then the two effects.
FetchSucceeds(r, k) ==
  /\ r \in inflight
  /\ inflight' = inflight \ { r }
  /\ contributionGrid' = transformContributionsToGrid(Feed(k))
  /\ loading' = FALSE
  /\ appliedReq' = r
  /\ loaded' = Feed(k)
  /\ regraded' = (Len(placedTetrominos) > 0)
  /\ placedTetrominos' =
       RecomputeEffect(FALSE, contributionGrid', placedTetrominos)
  /\ potentialScore' = ScoreEffect(placedTetrominos')
  /\ UNCHANGED << error, requests, effectRuns, turns, dragVars, now, call >>

\* A failing fetch without the finally block: loading stays as it is.
FetchFailsWithoutFinally(r, msg) ==
  /\ r \in inflight
  /\ inflight' = inflight \ { r }
  /\ error' = msg
  /\ UNCHANGED << loading, regraded, pieceVars >>
  /\ UNCHANGED << contributionGrid, appliedReq, loaded, requests, effectRuns,
                  dragVars, now, call >>

\* A failing fetch that installs the grid of an empty answer before it
\* records the error.
FetchFailsWithDefaultGrid(r, msg) ==
  /\ r \in inflight
  /\ inflight' = inflight \ { r }
  /\ error' = msg
  /\ loading' = FALSE
  /\ contributionGrid' = transformContributionsToGrid(<< >>)
  /\ regraded' = (Len(placedTetrominos) > 0)
  /\ placedTetrominos' =
       RecomputeEffect(FALSE, contributionGrid', placedTetrominos)
  /\ potentialScore' = ScoreEffect(placedTetrominos')
  /\ UNCHANGED << appliedReq, loaded, requests, effectRuns,
                  turns, dragVars, now, call >>

\* A fetch settles with a throw: the catch and the finally block, then the
\* effects.
FetchFails(r, msg) ==
  /\ r \in inflight
  /\ inflight' = inflight \ { r }
  /\ error' = msg
  /\ loading' = FALSE
  /\ regraded' = (Len(placedTetrominos) > 0)
  /\ placedTetrominos' =
       RecomputeEffect(FALSE, contributionGrid, placedTetrominos)
  /\ potentialScore' = ScoreEffect(placedTetrominos')
  /\ UNCHANGED << contributionGrid, appliedReq, loaded, requests, effectRuns,
                  turns, dragVars, now, call >>

\* ------------------------------------------------------- drag and drop
isPlaced(type) ==
  \E k \in 1..Len(placedTetrominos) : placedTetrominos[k].type = type

PlacedIds == { placedTetrominos[k].id : k \in 1..Len(placedTetrominos) }

\* placedTetrominos.find((t) => t.id === id): the index of the first piece
\* with that id, 0 when there is none.
FindIndex(placed, id) ==
  IF \E k \in 1..Len(placed) : placed[k].id = id
  THEN CHOOSE k \in 1..Len(placed) :
         /\ placed[k].id = id
         /\ \A j \in 1..(k - 1) : placed[j].id # id
  ELSE 0

\* The palette entry of a type is draggable while no piece has that type.
handlePaletteDragStart(type) ==
  /\ ~isPlaced(type)
  /\ selectedTetrominoType' = type
  /\ draggedTetrominoId' = NoId
  /\ isDraggingNew' = TRUE
  /\ UNCHANGED << fetchVars, pieceVars, now, call >>

handlePlacedTetrominoDragStart(id) ==
  /\ id \in PlacedIds
  /\ draggedTetrominoId' = id
  /\ isDraggingNew' = FALSE
  /\ selectedTetrominoType' =
       placedTetrominos[FindIndex(placedTetrominos, id)].type
  /\ UNCHANGED << fetchVars, pieceVars, now, call >>

\* The object handlePlacement returns.
Piece(id, type, x, y, rotation, details) ==
  [ id |-> id, type |-> type, x |-> x, y |-> y, rotation |-> rotation,
    absolutePositions |-> details.absolutePositions,
    scorePotential |-> details.scorePotential,
    blockDetails |-> details.blockDetails ]

\* handlePlacement from the collision check on, with the adjusted anchor and
\* the details it computed; dateNow is what Date.now() returns if called.
\* The result is <<>> for null and <<piece>> otherwise.
PlacementAt(type, rotation, id, dateNow, adjustedX, adjustedY, details) ==
  IF checkCollision(details.absolutePositions, id, placedTetrominos)
  THEN << >>
  ELSE << Piece(IF id # NoId THEN id ELSE dateNow, type, adjustedX, adjustedY,
                rotation, details) >>

PlacementAdjusted(type, rotation, id, dateNow, adj) ==
  PlacementAt(type, rotation, id, dateNow, adj.adjustedX, adj.adjustedY,
              calculateTetrominoDetails(contributionGrid, type, adj.adjustedX,
                                        adj.adjustedY, rotation))

handlePlacement(type, rotation, baseDropX, baseDropY, id, dateNow) ==
  PlacementAdjusted(type, rotation, id, dateNow,
    getAdjustedDropPosition(type, rotation,
      baseDropX - MathFloorHalf(TETROMINO_PIVOTS[type][1]),
      baseDropY - MathFloorHalf(TETROMINO_PIVOTS[type][2])))

\* prev.map((p) => (p.id === draggedTetrominoId ? movedPiece : p)), and the
\* same over the rotation history.
ReplaceById(placed, s, id, new) ==
  [ j \in 1..Len(s) |-> IF placed[j].id = id THEN new ELSE s[j] ]

\* The branch of handleDrop for a drag that started on the palette.
DropNew(newPiece) ==
  IF newPiece # << >>
  THEN /\ placedTetrominos' = Append(placedTetrominos, newPiece[1])
       /\ turns' = Append(turns, 0)
       /\ selectedTetrominoType' = NoType
       /\ now' = newPiece[1].id
  ELSE UNCHANGED << placedTetrominos, turns, selectedTetrominoType, now >>

\* The branch of handleDrop for a drag that started on the placed piece at
\* index k (0: no piece has the dragged id).
DropMoved(k, movedPiece) ==
  /\ IF movedPiece # << >>
     THEN /\ placedTetrominos' = ReplaceById(placedTetrominos, placedTetrominos,
                                             draggedTetrominoId, movedPiece[1])
          /\ turns' = ReplaceById(placedTetrominos, turns, draggedTetrominoId,
                                  turns[k])
     ELSE UNCHANGED << placedTetrominos, turns >>
  /\ draggedTetrominoId' = NoId

MovedPiece(k, dropGridX, dropGridY, dateNow) ==
  IF k = 0 THEN << >>
  ELSE handlePlacement(placedTetrominos[k].type, placedTetrominos[k].rotation,
                       dropGridX, dropGridY, draggedTetrominoId, dateNow)

DropOf(k, dropGridX, dropGridY, dateNow) ==
  DropMoved(k, MovedPiece(k, dropGridX, dropGridY, dateNow))

handleDrop(dropGridX, dropGridY, dateNow) ==
  /\ IF isDraggingNew /\ selectedTetrominoType # NoType
     THEN /\ DropNew(handlePlacement(selectedTetrominoType, 0, dropGridX,
                                     dropGridY, NoId, dateNow))
          /\ UNCHANGED draggedTetrominoId
     ELSE IF draggedTetrominoId # NoId
     THEN /\ DropOf(FindIndex(placedTetrominos, draggedTetrominoId),
                    dropGridX, dropGridY, dateNow)
          /\ UNCHANGED << selectedTetrominoType, now >>
     ELSE UNCHANGED << placedTetrominos, turns, selectedTetrominoType,
                       draggedTetrominoId, now >>
  /\ potentialScore' = ScoreEffect(placedTetrominos')
  /\ UNCHANGED << isDraggingNew, fetchVars, call >>

\* ------------------------------------------------------------- rotation
kickTranslations == << <<0,0>>, <<-1,0>>, <<1,0>>, <<-2,0>>, <<2,0>> >>

\* One pass of the wall-kick loop up to the collision check: the clamped
\* anchor and the details of the n-th kick of piece t for newRotation.
Candidate(grid, type, newRotation, adj) ==
  [ adjustedX |-> adj.adjustedX,
    adjustedY |-> adj.adjustedY,
    details |-> calculateTetrominoDetails(grid, type, adj.adjustedX,
                                          adj.adjustedY, newRotation) ]

KickCandidate(grid, t, newRotation, n) ==
  Candidate(grid, t.type, newRotation,
    getAdjustedDropPosition(t.type, newRotation,
                            t.x + kickTranslations[n][1],
                            t.y + kickTranslations[n][2]))

KickFree(grid, prev, t, newRotation, n) ==
  ~checkCollision(KickCandidate(grid, t, newRotation, n).details.absolutePositions,
                  t.id, prev)

FreeKicks(grid, prev, t, newRotation) ==
  { n \in 1..Len(kickTranslations) : KickFree(grid, prev, t, newRotation, n) }

\* The least element of a non-empty set of kicks, 0 for the empty set.
FirstOf(kicks) ==
  IF kicks = {} THEN 0 ELSE CHOOSE n \in kicks : \A m \in kicks : n <= m

\* The kick the loop returns on: the first collision-free one, 0 when the
\* loop falls through.
FirstKick(grid, prev, t, newRotation) ==
  FirstOf(FreeKicks(grid, prev, t, newRotation))

\* The new rotation without the wrap at 360.
NewRotationNoWrap(rotation) == rotation + 90

NewRotation(rotation) == (rotation + 90) % 360

\* { ...tetromino, rotation: newRotation, x: adjustedX, y: adjustedY, ...details }
Rotated(tetromino, newRotation, c) ==
  [ tetromino EXCEPT !.rotation = newRotation,
                     !.x = c.adjustedX,
                     !.y = c.adjustedY,
                     !.absolutePositions = c.details.absolutePositions,
                     !.scorePotential = c.details.scorePotential,
                     !.blockDetails = c.details.blockDetails ]

\* The wall-kick loop for the piece at tetrominoIndex, n being the kick it
\* returns on.
RotateWith(grid, prev, tetrominoIndex, newRotation, n) ==
  IF n = 0 THEN prev
  ELSE [ prev EXCEPT ![tetrominoIndex] =
           Rotated(prev[tetrominoIndex], newRotation,
                   KickCandidate(grid, prev[tetrominoIndex], newRotation, n)) ]

RotateAt(grid, prev, tetrominoIndex, newRotation) ==
  RotateWith(grid, prev, tetrominoIndex, newRotation,
             FirstKick(grid, prev, prev[tetrominoIndex], newRotation))

RotateIndex(grid, prev, tetrominoIndex) ==
  IF tetrominoIndex = 0 THEN prev
  ELSE RotateAt(grid, prev, tetrominoIndex,
                NewRotation(prev[tetrominoIndex].rotation))

\* The updater of handleRotate: prev |-> the next placedTetrominos.
RotateUpdate(grid, prev, id) == RotateIndex(grid, prev, FindIndex(prev, id))

handleRotate(id) ==
  /\ placedTetrominos' = RotateUpdate(contributionGrid, placedTetrominos, id)
  /\ turns' = IF placedTetrominos' # placedTetrominos
              THEN [ turns EXCEPT ![FindIndex(placedTetrominos, id)] = (@ + 1) % 4 ]
              ELSE turns
  /\ potentialScore' = ScoreEffect(placedTetrominos')
  /\ UNCHANGED << dragVars, fetchVars, now, call >>

\* ------------------------------------------------------------- deletion
RECURSIVE KeepOthers(_, _, _)
\* s.filter over the pieces placed[1..Len(placed)]: the entries of s whose
\* piece has another id.
KeepOthers(s, placed, id) ==
  IF Len(placed) = 0 THEN << >>
  ELSE IF Head(placed).id # id
       THEN << Head(s) >> \o KeepOthers(Tail(s), Tail(placed), id)
       ELSE KeepOthers(Tail(s), Tail(placed), id)

handleDelete(id) ==
  /\ placedTetrominos' = KeepOthers(placedTetrominos, placedTetrominos, id)
  /\ turns' = KeepOthers(turns, placedTetrominos, id)
  /\ potentialScore' = ScoreEffect(placedTetrominos')
  /\ UNCHANGED << dragVars, fetchVars, now, call >>

\* --------------------------------------------------------- specification
Ids == 1..MaxTime

\* The bound on the number of pieces: a drop that would place a new piece
\* is taken only while fewer than n pieces are placed.
MayPlace(n) ==
  (isDraggingNew /\ selectedTetrominoType # NoType) => Len(placedTetrominos) < n

\* Date.now() does not run backwards, and it need not advance between two
\* events: it returns what it returned last or a later value.
Clock == { t \in now..(now + 1) : t <= MaxTime }

\* The grid cells drop events land on: the leftmost columns and the topmost
\* rows up to the bound, and the last column and the last row, where the
\* right and bottom overflow adjustments apply.
DropXs == (0..MaxDropX) \cup {GRID_WIDTH - 1}
DropYs == (0..MaxDropY) \cup {GRID_HEIGHT - 1}
EngineDropXs == (0..MaxEngineDropX) \cup {GRID_WIDTH - 1}
EngineDropYs == (0..MaxEngineDropY) \cup {GRID_HEIGHT - 1}

Next ==
  \/ MountEffect
  \/ RefreshClick
  \/ \E r \in 1..MaxRequests, k \in Feeds : FetchSucceeds(r, k)
  \/ \E r \in 1..MaxRequests, msg \in ErrorMessages : FetchFails(r, msg)
  \/ \E type \in PaletteTypes : handlePaletteDragStart(type)
  \/ \E id \in Ids : handlePlacedTetrominoDragStart(id)
  \/ \E x \in DropXs, y \in DropYs, t \in Clock :
        MayPlace(MaxPieces) /\ handleDrop(x, y, t)
  \/ \E id \in Ids : handleRotate(id)
  \/ \E id \in Ids : handleDelete(id)

Spec == Init /\ [][Next]_vars


\* The engine alone, from the state the first successful fetch (of feed 1)
\* leaves behind: the user's events over a grid that no longer changes.
EngineInit ==
  /\ contributionGrid = transformContributionsToGrid(Feed(1))
  /\ loading = FALSE
  /\ error = NoError
  /\ placedTetrominos = <<>>
  /\ selectedTetrominoType = NoType
  /\ potentialScore = 0
  /\ draggedTetrominoId = NoId
  /\ isDraggingNew = FALSE
  /\ now = 1
  /\ inflight = {}
  /\ requests = 1
  /\ effectRuns = 1
  /\ appliedReq = 1
  /\ regraded = FALSE
  /\ turns = <<>>
  /\ loaded = Feed(1)
  /\ call = NoCall

EngineNext ==
  \/ \E type \in PaletteTypes : handlePaletteDragStart(type)
  \/ \E id \in Ids : handlePlacedTetrominoDragStart(id)
  \/ \E x \in EngineDropXs, y \in EngineDropYs, t \in Clock :
        MayPlace(MaxEnginePieces) /\ handleDrop(x, y, t)
  \/ \E id \in Ids : handleRotate(id)
  \/ \E id \in Ids : handleDelete(id)

SpecEngine == EngineInit /\ [][EngineNext]_vars


\* The engine while Date.now() advances between any two placements, so
\* that no two placed pieces have the same id.
UniqueIds ==
  \A i, j \in 1..Len(placedTetrominos) :
     i # j => placedTetrominos[i].id # placedTetrominos[j].id

SpecEngineUnique == EngineInit /\ [][EngineNext /\ UniqueIds']_vars

\* ------------------------------------------------ the fetch settles
\* Request r leaves flight: the awaited calls of fetchContributions return
\* or throw.  Under Next these are the steps FetchSucceeds(r, k) and
\* FetchFails(r, msg), one of which is possible whenever r is in flight.
Returns(r) == r \in inflight /\ inflight' = inflight \ { r }

\* The component under the scheduling React and the network give it: the
\* mount effect runs after the first render, and every fetch in flight
\* returns or throws.
SpecLive ==
  /\ Init
  /\ [][Next]_vars
  /\ WF_vars(effectRuns = 0 /\ MountEffect)
  /\ \A r \in 1..MaxRequests : WF_inflight(Returns(r))

\* --------------------------------------------- the engine, no grid
\* The engine from the state the failed first fetch leaves (the API
\* answered with an empty array, "no data"): the grid is still the initial
\* [], the loading overlay is gone and the grid element takes drops.
EmptyInit ==
  /\ contributionGrid = <<>>
  /\ loading = FALSE
  /\ error = "no data"
  /\ placedTetrominos = <<>>
  /\ selectedTetrominoType = NoType
  /\ potentialScore = 0
  /\ draggedTetrominoId = NoId
  /\ isDraggingNew = FALSE
  /\ now = 1
  /\ inflight = {}
  /\ requests = 1
  /\ effectRuns = 1
  /\ appliedReq = 0
  /\ regraded = FALSE
  /\ turns = <<>>
  /\ loaded = <<>>
  /\ call = NoCall

SpecEmpty == EmptyInit /\ [][EngineNext]_vars

\* ------------------------------------------------- the refresh alone
\* The mount effect, the refresh button and the settling fetches, with the
\* API answering with any of the first NumLoadFeeds feeds: the full feeds 1
\* and 2, the short feed 3 (10 records) and the long feeds from 4 on (58
\* records each, with dates of their own).
NumLoadFeeds == 6

LoadNext ==
  \/ MountEffect
  \/ RefreshClick
  \/ \E r \in 1..MaxRequests, k \in 1..NumLoadFeeds : FetchSucceeds(r, k)
  \/ \E r \in 1..MaxRequests, msg \in ErrorMessages : FetchFails(r, msg)

SpecLoad == Init /\ [][LoadNext]_vars

\* ------------------------------------------------ the helpers, called
\* The helper functions applied directly to arguments of their whole
\* domain, the component's state left as constructed: call holds the
\* arguments and the result of the one application of a behaviour.
AllTypes == { TYPES[i] : i \in 1..Len(TYPES) }
Rotations == { 0, 90, 180, 270 }

\* getContributionLevel is applied to the counts -CountsBelow..MaxCount.
CountsBelow == 3
MaxCount == 25
Counts == (-CountsBelow)..MaxCount

\* getAdjustedDropPosition is applied to the anchors that lie up to
\* AnchorSlack cells outside of the grid on either side.
AnchorSlack == 3
AnchorXs == (-AnchorSlack)..(GRID_WIDTH - 1 + AnchorSlack)
AnchorYs == (-AnchorSlack)..(GRID_HEIGHT - 1 + AnchorSlack)

componentVars == << pieceVars, dragVars, fetchVars, now >>

CallGetContributionLevel(count) ==
  /\ call = NoCall
  /\ call' = [ fn |-> "getContributionLevel", count |-> count,
               result |-> getContributionLevel(count) ]
  /\ UNCHANGED componentVars

CallGetAdjustedDropPosition(type, rotation, dropX, dropY) ==
  /\ call = NoCall
  /\ call' = [ fn |-> "getAdjustedDropPosition", type |-> type,
               rotation |-> rotation, dropX |-> dropX, dropY |-> dropY,
               result |-> getAdjustedDropPosition(type, rotation, dropX, dropY) ]
  /\ UNCHANGED componentVars

HelpersNext ==
  \/ \E count \in Counts : CallGetContributionLevel(count)
  \/ \E type \in AllTypes, rotation \in Rotations,
        dropX \in AnchorXs, dropY \in AnchorYs :
        CallGetAdjustedDropPosition(type, rotation, dropX, dropY)

SpecHelpers == Init /\ [][HelpersNext]_vars

\* ======================================================================
\* Properties
\* ======================================================================
Pieces == 1..Len(placedTetrominos)

CellSet(t) == { t.absolutePositions[i] : i \in 1..Len(t.absolutePositions) }

\* The cells overlap a piece other than the one at index k (k = 0: any piece).
OverlapsOther(cells, k) ==
  \E j \in Pieces \ {k} :
     \E i \in 1..Len(cells) : cells[i] \in CellSet(placedTetrominos[j])

RECURSIVE CellScoreSum(_, _)
CellScoreSum(t, n) ==
  IF n = 0 THEN 0 ELSE CellScoreSum(t, n - 1) + t.blockDetails[n].score

RECURSIVE AllCellScores(_)
AllCellScores(n) ==
  IF n = 0 THEN 0
  ELSE AllCellScores(n - 1)
       + CellScoreSum(placedTetrominos[n], Len(placedTetrominos[n].blockDetails))

\* C1: every placed piece occupies exactly 4 pairwise distinct cells, all of
\* them inside the grid (0 <= x < 8, 0 <= y < 7), whatever sequence of place,
\* move, rotate, delete and grid refresh led to the state.
C1_CellsValid ==
  \A k \in Pieces :
     LET cells == placedTetrominos[k].absolutePositions
     IN /\ Len(cells) = 4
        /\ \A i \in 1..4 : InGrid(cells[i][1], cells[i][2])
        /\ \A i, j \in 1..4 : i # j => cells[i] # cells[j]

\* A rotated piece in the bottom right corner of the grid, where the right
\* and bottom overflow adjustments applied, whose details a grid refresh
\* has recomputed.
C1_Witness ==
  /\ regraded
  /\ Len(contributionGrid) > 0
  /\ \E k \in Pieces :
        LET cells == placedTetrominos[k].absolutePositions
        IN /\ placedTetrominos[k].rotation = 90
           /\ \E i \in 1..Len(cells) : cells[i][1] = GRID_WIDTH - 1
           /\ \E i \in 1..Len(cells) : cells[i][2] = GRID_HEIGHT - 1

\* C2: no two distinct entries of the collection share a cell.
C2_Disjoint ==
  \A i, j \in Pieces :
     i # j => CellSet(placedTetrominos[i]) \cap CellSet(placedTetrominos[j]) = {}

TargetCells(type, rotation, x, y) ==
  LET adj == getAdjustedDropPosition(type, rotation,
               x - MathFloorHalf(TETROMINO_PIVOTS[type][1]),
               y - MathFloorHalf(TETROMINO_PIVOTS[type][2]))
      shape == rotateShape(TETROMINO_SHAPES[type], TETROMINO_PIVOTS[type], rotation)
  IN [ i \in 1..Len(shape) |->
         << adj.adjustedX + shape[i][1], adj.adjustedY + shape[i][2] >> ]

\* The drop at (x, y) is a place or a move whose target overlaps another piece.
DropOverlapsOther(x, y) ==
  IF isDraggingNew /\ selectedTetrominoType # NoType
  THEN OverlapsOther(TargetCells(selectedTetrominoType, 0, x, y), 0)
  ELSE LET k == FindIndex(placedTetrominos, draggedTetrominoId)
       IN /\ draggedTetrominoId # NoId
          /\ k # 0
          /\ OverlapsOther(TargetCells(placedTetrominos[k].type,
                                       placedTetrominos[k].rotation, x, y), k)

\* C4: a place or move whose clamped target cells overlap a cell of another
\* placed piece leaves the collection exactly as it was.
C4_OverlapRejected ==
  [][ \A x \in EngineDropXs, y \in EngineDropYs, t \in Clock :
        (handleDrop(x, y, t) /\ DropOverlapsOther(x, y))
          => placedTetrominos' = placedTetrominos ]_vars

\* The cells of the n-th wall-kick candidate of the piece at index k.
KickCells(k, n) ==
  KickCandidate(contributionGrid, placedTetrominos[k],
                (placedTetrominos[k].rotation + 90) % 360, n).details.absolutePositions

\* C5: when each of the five wall-kick candidates of rotate(id) overlaps
\* another piece, the rotation leaves the collection exactly as it was.
C5_RotationRejected ==
  [][ \A id \in Ids :
        LET k == FindIndex(placedTetrominos, id)
        IN (/\ handleRotate(id)
            /\ k # 0
            /\ \A n \in 1..5 : OverlapsOther(KickCells(k, n), k))
           => placedTetrominos' = placedTetrominos ]_vars

\* C6: rotate(id) commits the candidate of the first of the offsets (0,0),
\* (-1,0), (1,0), (-2,0), (2,0) whose cells overlap no other piece, with the
\* rotation advanced by 90 modulo 360.
C6_FirstFreeKick ==
  [][ \A id \in Ids :
        LET k == FindIndex(placedTetrominos, id)
            free == { n \in 1..5 : ~OverlapsOther(KickCells(k, n), k) }
        IN (handleRotate(id) /\ k # 0 /\ free # {})
           => LET n == CHOOSE m \in free : \A l \in free : m <= l
                  offsets == << <<0,0>>, <<-1,0>>, <<1,0>>, <<-2,0>>, <<2,0>> >>
                  t == placedTetrominos[k]
                  r == (t.rotation + 90) % 360
                  a == getAdjustedDropPosition(t.type, r, t.x + offsets[n][1],
                                               t.y + offsets[n][2])
              IN /\ placedTetrominos'[k].rotation = r
                 /\ placedTetrominos'[k].x = a.adjustedX
                 /\ placedTetrominos'[k].y = a.adjustedY
                 /\ placedTetrominos'[k].absolutePositions = KickCells(k, n) ]_vars

\* C7: a piece's rotation is one of 0, 90, 180, 270 and equals 90 times the
\* number of its successful rotations modulo 4: every successful rotate
\* advances it by exactly 90 modulo 360 and four of them return it to the
\* rotation it had.
C7_QuarterTurns ==
  \A k \in Pieces :
     /\ placedTetrominos[k].rotation \in {0, 90, 180, 270}
     /\ placedTetrominos[k].rotation = 90 * turns[k]

\* A piece after three successful rotations.
C7_Witness ==
  \E k \in Pieces : turns[k] = 3 /\ placedTetrominos[k].rotation = 270

\* A fetch settles in this step.
Settles == inflight' # inflight /\ inflight' \subseteq inflight

\* C8: a grid refresh changes neither which pieces exist nor any piece's
\* id, type, anchor, rotation or cells.
C8_RefreshFrame ==
  [][ Settles =>
        /\ Len(placedTetrominos') = Len(placedTetrominos)
        /\ \A k \in Pieces :
              /\ placedTetrominos'[k].id = placedTetrominos[k].id
              /\ placedTetrominos'[k].type = placedTetrominos[k].type
              /\ placedTetrominos'[k].x = placedTetrominos[k].x
              /\ placedTetrominos'[k].y = placedTetrominos[k].y
              /\ placedTetrominos'[k].rotation = placedTetrominos[k].rotation
              /\ placedTetrominos'[k].absolutePositions =
                   placedTetrominos[k].absolutePositions ]_vars

\* A refresh that replaced the grid under a rotated piece with scores.
C8_Witness ==
  /\ regraded
  /\ appliedReq = 2
  /\ \E k \in Pieces :
        /\ placedTetrominos[k].rotation # 0
        /\ placedTetrominos[k].scorePotential > 0

\* C9: over a loaded grid every per-cell score of every piece is 100 times
\* the level of the covered cell in the current grid, and the piece's
\* scorePotential is the sum of the four.
C9_ScoresFollowGrid ==
  Len(contributionGrid) > 0 =>
    \A k \in Pieces :
       LET t == placedTetrominos[k]
           LevelOfCell(i) ==
             contributionGrid[t.absolutePositions[i][2] + 1]
                             [t.absolutePositions[i][1] + 1].level
       IN /\ Len(t.blockDetails) = 4
          /\ \A i \in 1..4 : t.blockDetails[i].score = 100 * LevelOfCell(i)
          /\ t.scorePotential = 100 * (LevelOfCell(1) + LevelOfCell(2)
                                       + LevelOfCell(3) + LevelOfCell(4))

\* After a refresh, a piece that covers a level-0 cell (score 0 there) and
\* cells of higher levels.
C9_Witness ==
  /\ regraded
  /\ Len(contributionGrid) > 0
  /\ \E k \in Pieces :
        /\ \E i \in 1..4 : placedTetrominos[k].blockDetails[i].score = 0
        /\ placedTetrominos[k].scorePotential > 0

\* C10: the grid is never replaced by the data of a request started before
\* the request whose data it holds.
C10_LastRequestWins == [][ appliedReq' >= appliedReq ]_vars

\* C11: the ids of the placed pieces are pairwise distinct in every
\* reachable state, also when pieces are placed while Date.now() has not
\* advanced.
C11_IdsDistinct ==
  \A i, j \in Pieces :
     placedTetrominos[i].id = placedTetrominos[j].id => i = j

\* C12: delete(id) of a placed id removes exactly one piece, the one with
\* that id, keeps every other piece as it was and in order, lowers the
\* aggregate score by that piece's scorePotential and leaves the id absent;
\* delete(id) of an absent id changes nothing.
C12_DeleteOne ==
  [][ \A id \in Ids :
        handleDelete(id) =>
          LET k == FindIndex(placedTetrominos, id)
          IN IF k = 0
             THEN /\ placedTetrominos' = placedTetrominos
                  /\ potentialScore' = potentialScore
             ELSE /\ Len(placedTetrominos') = Len(placedTetrominos) - 1
                  /\ \A j \in 1..(k - 1) :
                        placedTetrominos'[j] = placedTetrominos[j]
                  /\ \A j \in (k + 1)..Len(placedTetrominos) :
                        placedTetrominos'[j - 1] = placedTetrominos[j]
                  /\ potentialScore' =
                       potentialScore - placedTetrominos[k].scorePotential
                  /\ \A j \in 1..Len(placedTetrominos') :
                        placedTetrominos'[j].id # id ]_vars

\* C13: for every type, rotation and requested anchor getAdjustedDropPosition
\* returns an anchor at which every cell of the rotated shape, hence its
\* whole bounding box, lies within [0,8) x [0,7), and it returns the
\* requested anchor when the rotated shape already fits there.
C13_ClampIntoGrid ==
  call.fn = "getAdjustedDropPosition" =>
    LET shape == rotateShape(TETROMINO_SHAPES[call.type],
                             TETROMINO_PIVOTS[call.type], call.rotation)
        FitsAt(ax, ay) ==
          \A i \in 1..Len(shape) :
             /\ 0 <= ax + shape[i][1] /\ ax + shape[i][1] < 8
             /\ 0 <= ay + shape[i][2] /\ ay + shape[i][2] < 7
    IN /\ FitsAt(call.result.adjustedX, call.result.adjustedY)
       /\ FitsAt(call.dropX, call.dropY) =>
            /\ call.result.adjustedX = call.dropX
            /\ call.result.adjustedY = call.dropY

\* A requested anchor right of and above the grid, moved on both axes.
C13_Witness ==
  /\ call.fn = "getAdjustedDropPosition"
  /\ call.rotation = 270
  /\ call.dropX > GRID_WIDTH /\ call.dropY < 0
  /\ call.result.adjustedX < call.dropX
  /\ call.result.adjustedY > call.dropY

\* C14: a successful place of type T dropped at (rx, ry) appends a piece
\* with rotation 0 whose anchor is getAdjustedDropPosition(T, 0,
\* rx - floor(pivotX), ry - floor(pivotY)) and whose cells are T's unrotated
\* shape translated by that anchor; over the all-count-0 grid the I piece
\* anchored at (0,0) gets the cells (0,0),(1,0),(2,0),(3,0), scorePotential
\* 400 and, being the only piece, aggregate score 400.
C14_PlaceAtClampedAnchor ==
  [][ \A rx \in DropXs, ry \in DropYs, t \in Clock :
        (/\ isDraggingNew /\ selectedTetrominoType # NoType
         /\ Len(placedTetrominos') = Len(placedTetrominos) + 1
         /\ handleDrop(rx, ry, t))
        => LET T == selectedTetrominoType
               new == placedTetrominos'[Len(placedTetrominos')]
               a == getAdjustedDropPosition(T, 0,
                      rx - (TETROMINO_PIVOTS[T][1] \div 2),
                      ry - (TETROMINO_PIVOTS[T][2] \div 2))
           IN /\ new.type = T
              /\ new.rotation = 0
              /\ new.x = a.adjustedX /\ new.y = a.adjustedY
              /\ new.absolutePositions =
                   [ i \in 1..4 |-> << a.adjustedX + TETROMINO_SHAPES[T][i][1],
                                       a.adjustedY + TETROMINO_SHAPES[T][i][2] >> ]
              /\ \A j \in Pieces : placedTetrominos'[j] = placedTetrominos[j]
              /\ (T = "I" /\ new.x = 0 /\ new.y = 0 /\ loaded = Feed(2))
                   => /\ new.absolutePositions =
                           << <<0,0>>, <<1,0>>, <<2,0>>, <<3,0>> >>
                      /\ new.scorePotential = 400
                      /\ (Len(placedTetrominos') = 1 => potentialScore' = 400)
    ]_vars

\* The I piece placed at anchor (0,0) over the all-count-0 grid, loaded
\* before the piece was placed.
C14_Witness ==
  /\ loaded = Feed(2)
  /\ ~regraded
  /\ Len(placedTetrominos) = 1
  /\ placedTetrominos[1].type = "I"
  /\ placedTetrominos[1].x = 0 /\ placedTetrominos[1].y = 0
  /\ placedTetrominos[1].rotation = 0
  /\ potentialScore = 400

\* The piece at index k before the step and the piece at index k after it
\* agree on everything but the anchor and the derived fields.
SameButPosition(k) ==
  /\ placedTetrominos'[k].id = placedTetrominos[k].id
  /\ placedTetrominos'[k].type = placedTetrominos[k].type
  /\ placedTetrominos'[k].rotation = placedTetrominos[k].rotation

\* C15: a successful move(id) keeps the number of pieces, keeps the moved
\* piece's id, type, rotation and index, and leaves every other piece of
\* the collection exactly as it was.
C15_MoveFrame ==
  [][ (/\ ~(isDraggingNew /\ selectedTetrominoType # NoType)
       /\ draggedTetrominoId # NoId
       /\ placedTetrominos' # placedTetrominos
       /\ \E x \in EngineDropXs, y \in EngineDropYs, t \in Clock :
             handleDrop(x, y, t))
      => LET k == FindIndex(placedTetrominos, draggedTetrominoId)
         IN /\ Len(placedTetrominos') = Len(placedTetrominos)
            /\ SameButPosition(k)
            /\ \A j \in Pieces \ {k} :
                  placedTetrominos'[j] = placedTetrominos[j] ]_vars

CellAt(x, y) == contributionGrid[y + 1][x + 1]

\* C17: in every observable state a loaded grid is 7 rows of 8 cells that
\* come from one record sequence as a whole: for every i < 56 with a record,
\* the cell (i div 7, i mod 7) holds that record's count, the level of the
\* count and the record's date, and the grid is the one the first 56
\* records alone produce (records from index 56 on affect no cell).
C17_ColumnMajorLoad ==
  Len(contributionGrid) > 0 =>
    /\ Len(contributionGrid) = 7
    /\ \A y \in 1..7 : Len(contributionGrid[y]) = 8
    /\ \A i \in 0..55 :
          i < Len(loaded) =>
            CellAt(i \div 7, i % 7) =
              [ count |-> loaded[i + 1].count,
                level |-> getContributionLevel(loaded[i + 1].count),
                date |-> loaded[i + 1].date ]
    /\ Len(loaded) > 56 =>
          contributionGrid = transformContributionsToGrid(SubSeq(loaded, 1, 56))

\* A refresh replaced the grid with the one of the 58-record feed.
C17_Witness ==
  /\ Len(loaded) = 58
  /\ appliedReq = 2
  /\ CellAt(7, 6).date = loaded[56].date
  /\ CellAt(0, 1).date = loaded[2].date

\* C18: in every loaded grid each cell's level is getContributionLevel of
\* the cell's count; so a cell left at its default (count 0, no date) has
\* level 1, the level of a loaded count 0.
C18_LevelOfStoredCount ==
  Len(contributionGrid) > 0 =>
    \A x \in 0..7, y \in 0..6 :
       CellAt(x, y).level = getContributionLevel(CellAt(x, y).count)

\* Where the pieces are: everything of a piece but its scores.
Positions(placed) ==
  [ k \in 1..Len(placed) |->
      << placed[k].id, placed[k].type, placed[k].x, placed[k].y,
         placed[k].rotation, placed[k].absolutePositions >> ]

\* Every piece has its four cells inside the grid, pieces of different ids
\* share no cell, and every score is 0, as is the score of the piece over
\* the grid built from an empty record sequence.
AllScoresZero ==
  /\ potentialScore = 0
  /\ \A k \in Pieces :
        LET t == placedTetrominos[k]
        IN /\ Len(t.absolutePositions) = 4
           /\ calculateTetrominoDetails(transformContributionsToGrid(<< >>),
                 t.type, t.x, t.y, t.rotation).scorePotential = 0
           /\ \A i \in 1..4 :
                 /\ InGrid(t.absolutePositions[i][1], t.absolutePositions[i][2])
                 /\ t.blockDetails[i].score = 0
                 /\ t.blockDetails[i].level = 0
           /\ t.scorePotential = 0
           /\ \A j \in Pieces :
                 placedTetrominos[j].id # t.id =>
                   CellSet(placedTetrominos[j]) \cap CellSet(t) = {}

\* A loaded grid: every cell with count 3, level 2.
SomeLoadedGrid ==
  [ r \in 1..GRID_HEIGHT |->
      [ c \in 1..GRID_WIDTH |-> [ count |-> 3, level |-> 2, date |-> 1 ] ] ]

\* C19: with an empty grid place, move and rotate keep every piece inside
\* the grid and apart from the pieces of other ids, every per-cell score,
\* every scorePotential and the aggregate score are 0, and a rotation (the
\* step that changes a piece while the drag state and the number of pieces
\* stay) leaves the pieces where a rotation over a loaded grid leaves them.
C19_EmptyGrid ==
  /\ [](Len(contributionGrid) = 0 => AllScoresZero)
  /\ [][ (/\ Len(contributionGrid) = 0
          /\ UNCHANGED dragVars
          /\ Len(placedTetrominos') = Len(placedTetrominos)
          /\ placedTetrominos' # placedTetrominos)
         => \E id \in PlacedIds :
               Positions(placedTetrominos') =
                 Positions(RotateUpdate(SomeLoadedGrid, placedTetrominos, id))
      ]_vars

\* Over the empty grid, two pieces of different ids, one of them rotated.
C19_Witness ==
  /\ Len(contributionGrid) = 0
  /\ Len(placedTetrominos) = 2
  /\ placedTetrominos[1].id # placedTetrominos[2].id
  /\ \E k \in Pieces : placedTetrominos[k].rotation = 90

\* The cells share a cell with the piece at index k.
OverlapsSelf(cells, k) ==
  \E i \in 1..Len(cells) : cells[i] \in CellSet(placedTetrominos[k])

\* The drop at (x, y) would move the dragged piece, at index k, onto cells
\* that no other piece occupies.
MoveClear(k, x, y) ==
  ~OverlapsOther(TargetCells(placedTetrominos[k].type,
                             placedTetrominos[k].rotation, x, y), k)

\* C20: a piece does not collide with itself.  Whenever a piece is being
\* dragged, every drop whose target cells touch no other piece is accepted
\* by handlePlacement with exactly these cells, whether or not they overlap
\* the piece's own cells; and for every placed piece with a wall-kick
\* candidate that touches no other piece the wall-kick loop of rotate
\* finds a candidate and changes the piece.
C20_NoSelfCollision ==
  /\ LET k == FindIndex(placedTetrominos, draggedTetrominoId)
     IN (draggedTetrominoId # NoId /\ k # 0) =>
          \A x \in EngineDropXs, y \in EngineDropYs :
             MoveClear(k, x, y) =>
               LET moved == handlePlacement(placedTetrominos[k].type,
                                            placedTetrominos[k].rotation,
                                            x, y, draggedTetrominoId, now)
               IN /\ moved # << >>
                  /\ moved[1].absolutePositions =
                       TargetCells(placedTetrominos[k].type,
                                   placedTetrominos[k].rotation, x, y)
  /\ \A id \in PlacedIds :
        LET k == FindIndex(placedTetrominos, id)
        IN (\E n \in 1..5 : ~OverlapsOther(KickCells(k, n), k)) =>
             /\ FirstKick(contributionGrid, placedTetrominos, placedTetrominos[k],
                          NewRotation(placedTetrominos[k].rotation)) # 0
             /\ RotateUpdate(contributionGrid, placedTetrominos, id)
                  # placedTetrominos

\* A rotated piece is being dragged beside a piece of another id, and some
\* drop would put it on cells of its own and of no other piece.
C20_Witness ==
  /\ Len(contributionGrid) > 0
  /\ Len(placedTetrominos) = 2
  /\ placedTetrominos[1].id # placedTetrominos[2].id
  /\ draggedTetrominoId # NoId
  /\ LET k == FindIndex(placedTetrominos, draggedTetrominoId)
     IN /\ k # 0
        /\ placedTetrominos[k].rotation = 90
        /\ \E x \in EngineDropXs, y \in EngineDropYs :
              /\ MoveClear(k, x, y)
              /\ OverlapsSelf(TargetCells(placedTetrominos[k].type,
                                          placedTetrominos[k].rotation, x, y), k)
              /\ TargetCells(placedTetrominos[k].type,
                             placedTetrominos[k].rotation, x, y)
                   # placedTetrominos[k].absolutePositions

\* Every cell of the sequence is a cell of the grid.
AllInGrid(cells) ==
  \A i \in 1..Len(cells) : InGrid(cells[i][1], cells[i][2])

\* The clamped target cells of a drop at (x, y) are in the grid, and
\* handlePlacement rejects the drop only when they overlap a piece other
\* than the one at index k (0 for a new piece).
PlacementBoundsFree(type, rotation, x, y, id, k) ==
  LET placement == handlePlacement(type, rotation, x, y, id, now)
      cells == TargetCells(type, rotation, x, y)
  IN IF placement # << >>
     THEN AllInGrid(placement[1].absolutePositions)
     ELSE AllInGrid(cells) /\ OverlapsOther(cells, k)

\* C21: grid bounds never reject an operation.  For every drop of the
\* piece being dragged, new or placed, the clamped target cells are in the
\* grid and the drop is rejected only when they overlap another piece; the
\* cells of each of the five wall-kick candidates of every placed piece are
\* in the grid; and a piece that is alone in the collection is rotated by
\* rotate to the next quarter turn, onto the cells of the first candidate.
C21_BoundsNeverReject ==
  /\ (isDraggingNew /\ selectedTetrominoType # NoType) =>
        \A x \in DropXs, y \in DropYs :
           PlacementBoundsFree(selectedTetrominoType, 0, x, y, NoId, 0)
  /\ LET k == FindIndex(placedTetrominos, draggedTetrominoId)
     IN (draggedTetrominoId # NoId /\ k # 0) =>
          \A x \in DropXs, y \in DropYs :
             PlacementBoundsFree(placedTetrominos[k].type,
                                 placedTetrominos[k].rotation, x, y,
                                 draggedTetrominoId, k)
  /\ \A k \in Pieces, n \in 1..Len(kickTranslations) :
        AllInGrid(KickCells(k, n))
  /\ Len(placedTetrominos) = 1 =>
        /\ RotateUpdate(contributionGrid, placedTetrominos,
                        placedTetrominos[1].id)
             = RotateWith(contributionGrid, placedTetrominos, 1,
                          NewRotation(placedTetrominos[1].rotation), 1)
        /\ RotateWith(contributionGrid, placedTetrominos, 1,
                      NewRotation(placedTetrominos[1].rotation), 1)[1].rotation
             = NewRotation(placedTetrominos[1].rotation)

\* The lone I piece placed at (0, 0) on the grid of all-zero counts was
\* rotated once: rotation 90, cells in the grid, aggregate score still 400.
C21_Witness ==
  /\ loaded = Feed(2)
  /\ ~regraded
  /\ Len(placedTetrominos) = 1
  /\ placedTetrominos[1].type = "I"
  /\ placedTetrominos[1].rotation = 90
  /\ turns = << 1 >>
  /\ AllInGrid(placedTetrominos[1].absolutePositions)
  /\ placedTetrominos[1].absolutePositions =
       << << 2, 0 >>, << 2, 1 >>, << 2, 2 >>, << 2, 3 >> >>
  /\ potentialScore = 400

\* C22: a refresh that fails, for any of the three reasons, leaves the
\* grid, the records it was built from, and every placed piece with its
\* cells, block scores and scorePotential, and the aggregate score exactly
\* as they were, records the error and ends the loading state.
C22_FailedRefreshFrame ==
  [][ \A r \in 1..MaxRequests, msg \in ErrorMessages :
        FetchFails(r, msg) =>
          /\ contributionGrid' = contributionGrid
          /\ loaded' = loaded
          /\ placedTetrominos' = placedTetrominos
          /\ potentialScore' = potentialScore
          /\ turns' = turns
          /\ error' = msg
          /\ error' # NoError
          /\ ~loading' ]_vars

\* The refresh started with the button failed over the grid the mount's
\* fetch loaded, while a piece was placed (regraded): the grid stands and
\* the piece has a positive score.
C22_Witness ==
  /\ error \in ErrorMessages
  /\ ~loading
  /\ inflight = {}
  /\ effectRuns = 1
  /\ requests = 2
  /\ appliedReq = 1
  /\ regraded
  /\ Len(contributionGrid) = GRID_HEIGHT
  /\ contributionGrid = transformContributionsToGrid(loaded)
  /\ Len(placedTetrominos) = 1
  /\ placedTetrominos[1].scorePotential > 0
  /\ potentialScore = placedTetrominos[1].scorePotential

\* C23: every started refresh completes.  Whenever loading is true it is
\* eventually false again, whether the fetch returned or threw, so the
\* refresh button (disabled while loading) is not disabled forever.
C23_LoadingEnds == loading ~> ~loading

\* The refresh started with the button after the mount's fetch has
\* completed with a new grid: nothing is in flight and loading is false.
C23_Witness ==
  /\ ~loading
  /\ inflight = {}
  /\ effectRuns = 1
  /\ requests = 2
  /\ appliedReq = 2
  /\ error = NoError

\* C24: the anchor (x, y) of every placed piece is a coordinate of the
\* grid: 0 <= x < GRID_WIDTH and 0 <= y < GRID_HEIGHT.
C24_AnchorInGrid ==
  \A k \in Pieces : InGrid(placedTetrominos[k].x, placedTetrominos[k].y)

\* C25: with new pieces started from the palette only, the collection
\* holds at most one piece of each type, hence no more pieces than there
\* are types; and whenever a drop would place a new piece (a drag from the
\* palette is pending, fresh, rejected before or stale), no placed piece
\* has the type it would place.
C25_OnePiecePerType ==
  /\ \A i, j \in Pieces :
        placedTetrominos[i].type = placedTetrominos[j].type => i = j
  /\ Len(placedTetrominos) <= Cardinality(PaletteTypes)
  /\ (isDraggingNew /\ selectedTetrominoType # NoType)
        => ~isPlaced(selectedTetrominoType)

====
